---- MODULE Spec2Model ----
(***************************************************************************)
(* Model of find_duplicates.py: FileDuplicateFinder.find_duplicate_files   *)
(* (directory walk, thread-pool hashing, grouping by digest) and main.     *)
(*                                                                         *)
(* Strings are sequences of one-character strings, file contents are       *)
(* sequences of bytes.  SHA-256 is modelled as an incremental digest with   *)
(* a fixed-length hex rendering that has no collisions on the bounded       *)
(* contents (the spec treats collisions as not handled).                   *)
(***************************************************************************)
EXTENDS Integers, Sequences, FiniteSets, TLC

\* ------------------------------------------------------------------ bounds
MaxFiles == 3
MaxWorkers == 2
ChunkSize == 2
DigestHexLen == 2

\* ------------------------------------------------------- the file system
Byte == {0, 1}
Contents == {<<0>>, <<0, 1, 0>>, <<0, 1, 1>>}
Names == {<<"a">>, <<"a", "t">>}
ROOT == <<"r">>
SUB == <<"r", "/", "t">>
Dirs == <<ROOT, SUB>>
MinSizes == {1, 3}
IgnoreLists == {<<>>, <<<<"x">>, <<"t">>>>}
None == [kind |-> "None", val |-> <<>>]

Str(s) == [kind |-> "str", val |-> s]

DirIndex(d) == CHOOSE i \in DOMAIN Dirs : Dirs[i] = d

\* os.path.join(root, filename)
Join(root, filename) == root \o <<"/">> \o filename

PathOf(f) == Join(f.dir, f.name)

FileRecs == [dir : {ROOT, SUB}, name : Names, data : Contents]

\* Directory listings in the order os.walk yields them: top-down, the files
\* of the root before those of the subdirectory, each path at most once.
IsTree(t) ==
    /\ \A i, j \in DOMAIN t : i < j => DirIndex(t[i].dir) <= DirIndex(t[j].dir)
    /\ \A i, j \in DOMAIN t : i # j => PathOf(t[i]) # PathOf(t[j])

Trees == UNION {{t \in [1..n -> FileRecs] : IsTree(t)} : n \in 0..MaxFiles}

VARIABLES
    tree,            \* regular files under the root, in listing order
    listable,        \* which directories os.scandir can list
    ignore_patterns, \* self.ignore_patterns
    min_file_size,   \* self.min_file_size
    pc,              \* position of the coordinator thread
    wi,              \* entries of the walk already examined
    files_to_check,  \* candidate paths
    futures,         \* one future per submitted calculate_hash call
    calls,           \* how often calculate_hash was entered per task
    log,             \* warning and error records written by calculate_hash
    out_of_order,    \* a calculate_hash call returned before an earlier submitted one
    hash_results,    \* results collected from executor.map
    gi,              \* pairs of the zip already grouped
    file_hashes,     \* defaultdict(list): digest -> paths
    duplicates,      \* value returned by find_duplicate_files
    exit_status      \* process exit of main

vars == <<tree, listable, ignore_patterns, min_file_size, pc, wi, files_to_check,
          futures, calls, log, out_of_order, hash_results, gi, file_hashes,
          duplicates, exit_status>>

\* ------------------------------------------------------------ PathFilter
\* pattern in filename
Contains(filename, pattern) ==
    \E k \in 0..(Len(filename) - Len(pattern)) :
        SubSeq(filename, k + 1, k + Len(pattern)) = pattern

\* variant: all(...) in place of any(...)
_should_ignore_file_all(filename) ==
    \A k \in DOMAIN ignore_patterns : Contains(filename, ignore_patterns[k])

_should_ignore_file(filename) ==
    \E k \in DOMAIN ignore_patterns : Contains(filename, ignore_patterns[k])

\* variant: a strict size comparison
PassesFilterStrict(size, filename) ==
    size > min_file_size /\ ~_should_ignore_file(filename)

\* condition of the if in the walk loop
PassesFilter(size, filename) ==
    size >= min_file_size /\ ~_should_ignore_file(filename)

\* ---------------------------------------------------------------- Walker
\* the (root, filename) pairs produced by the two nested loops over os.walk;
\* a directory that cannot be listed is skipped by os.walk (onerror=None)
Discovered ==
    IF ~listable[ROOT] THEN <<>>
    ELSE SelectSeq(tree, LAMBDA f : listable[f.dir])

\* ---------------------------------------------------------------- Hasher
RECURSIVE Pow(_, _)
Pow(b, n) == IF n = 0 THEN 1 ELSE b * Pow(b, n - 1)

\* hasher.update(chunk)
RECURSIVE Update(_, _)
Update(h, chunk) ==
    IF chunk = <<>> THEN h
    ELSE Update((h * Cardinality(Byte) + Head(chunk)) % Pow(16, DigestHexLen),
                Tail(chunk))

\* f.read(chunk_size) at offset pos
Read(data, pos, chunk_size) ==
    SubSeq(data, pos + 1, IF pos + chunk_size < Len(data) THEN pos + chunk_size
                          ELSE Len(data))

\* variant: `if` in place of `while`, only the first chunk is digested
ReadLoopOnce(h, data, pos, chunk_size) == Update(h, Read(data, pos, chunk_size))

\* while chunk := f.read(chunk_size): hasher.update(chunk)
RECURSIVE ReadLoop(_, _, _, _)
ReadLoop(h, data, pos, chunk_size) ==
    LET chunk == Read(data, pos, chunk_size) IN
    IF chunk = <<>> THEN h
    ELSE ReadLoop(Update(h, chunk), data, pos + Len(chunk), chunk_size)

\* hasher.hexdigest(): fixed-length hex rendering
HexDigest(h) ==
    [k \in 1..DigestHexLen |-> (h \div Pow(16, DigestHexLen - k)) % 16]

Sha256(data, chunk_size) == HexDigest(ReadLoop(1, data, 0, chunk_size))

ContentOf(path) == (CHOOSE f \in {tree[i] : i \in DOMAIN tree} : PathOf(f) = path).data

\* variant: the return of hexdigest() moved behind the try block
calculate_hash_after_try(file_path, io) ==
    Str(Sha256(IF io = "ok" THEN ContentOf(file_path) ELSE <<>>, ChunkSize))

\* calculate_hash: io is what open/read do ("ok", "PermissionError", "OSError")
calculate_hash(file_path, io) ==
    IF io = "ok" THEN Str(Sha256(ContentOf(file_path), ChunkSize))
    ELSE None

\* the record calculate_hash logs: warning on PermissionError, error on OSError
LogRecord(file_path, io) ==
    IF io = "PermissionError" THEN {<<"WARNING", file_path>>}
    ELSE IF io = "OSError" THEN {<<"ERROR", file_path>>}
    ELSE {}

\* truth value of `if file_hash:`
Truthy(r) == r.kind = "str" /\ Len(r.val) > 0

\* ------------------------------------------------------------------ Init
\* __init__ (directory, ignore_patterns, min_file_size) and the locals of
\* find_duplicate_files before the walk.  A root that is missing or cannot
\* be listed has no files the program can see.
Init ==
    /\ listable \in [{ROOT, SUB} -> BOOLEAN]
    /\ tree \in IF listable[ROOT] THEN Trees ELSE {<<>>}
    /\ ignore_patterns \in IgnoreLists
    /\ min_file_size \in MinSizes
    /\ pc = "walk"
    /\ wi = 0
    /\ files_to_check = <<>>
    /\ futures = <<>>
    /\ calls = <<>>
    /\ log = {}
    /\ out_of_order = FALSE
    /\ hash_results = <<>>
    /\ gi = 0
    /\ file_hashes = [h \in {} |-> <<>>]
    /\ duplicates = [h \in {} |-> <<>>]
    /\ exit_status = "running"

\* ------------------------------------------------------- ScanCoordinator
\* one iteration of the inner walk loop; os.path.getsize either returns the
\* size or raises OSError (entry vanished, dangling link), which leaves
\* find_duplicate_files
WalkFile ==
    /\ pc = "walk"
    /\ wi < Len(Discovered)
    /\ LET f == Discovered[wi + 1] IN
       \E stat \in {"ok", "OSError"} :
          IF stat = "ok"
          THEN /\ files_to_check' =
                    IF PassesFilter(Len(f.data), f.name)
                    THEN Append(files_to_check, PathOf(f))
                    ELSE files_to_check
               /\ wi' = wi + 1
               /\ pc' = pc
          ELSE /\ pc' = "raised"
               /\ UNCHANGED <<files_to_check, wi>>
    /\ UNCHANGED <<tree, out_of_order, listable, ignore_patterns, min_file_size,
                   futures, calls, log, hash_results, gi, file_hashes, duplicates,
                   exit_status>>

\* variant: the pool is fed while the walk is still running
SubmitEarly ==
    /\ pc = "walk"
    /\ futures' = [i \in DOMAIN files_to_check |-> [state |-> "PENDING", result |-> None]]
    /\ calls' = [i \in DOMAIN files_to_check |-> 0]
    /\ pc' = "collect"
    /\ UNCHANGED <<tree, listable, ignore_patterns, min_file_size, wi, files_to_check,
                   log, out_of_order, hash_results, gi, file_hashes, duplicates,
                   exit_status>>

\* executor.map(self.calculate_hash, files_to_check): one future per path,
\* submitted in list order
Submit ==
    /\ pc = "walk"
    /\ wi = Len(Discovered)
    /\ futures' = [i \in DOMAIN files_to_check |-> [state |-> "PENDING", result |-> None]]
    /\ calls' = [i \in DOMAIN files_to_check |-> 0]
    /\ pc' = "collect"
    /\ UNCHANGED <<tree, out_of_order, listable, ignore_patterns, min_file_size, log,
                   wi, files_to_check, hash_results, gi, file_hashes, duplicates,
                   exit_status>>

Running == {i \in DOMAIN futures : futures[i].state = "RUNNING"}
Pending == {i \in DOMAIN futures : futures[i].state = "PENDING"}

\* variant: one thread per submitted task
CanStartUnbounded == TRUE

\* ThreadPoolExecutor(): a worker thread is free
CanStart == Cardinality(Running) < MaxWorkers

\* the work queue is first-in first-out
NextTask == CHOOSE i \in Pending : \A j \in Pending : i <= j

\* a worker takes the oldest work item and enters calculate_hash
StartTask ==
    /\ Pending # {}
    /\ CanStart
    /\ futures' = [futures EXCEPT ![NextTask].state = "RUNNING"]
    /\ calls' = [calls EXCEPT ![NextTask] = @ + 1]
    /\ UNCHANGED <<tree, out_of_order, listable, ignore_patterns, min_file_size, log,
                   pc, wi, files_to_check, hash_results, gi, file_hashes, duplicates,
                   exit_status>>

\* variant: results are stored in completion order
ResultSlotCompletion(i) ==
    Cardinality({j \in DOMAIN futures : futures[j].state = "FINISHED"}) + 1

\* the future that receives the value calculate_hash returns for task i
ResultSlot(i) == i

\* calculate_hash returns and the worker sets the result of the future
FinishTask(i) ==
    /\ i \in Running
    /\ \E io \in {"ok", "PermissionError", "OSError"} :
          /\ futures' = [futures EXCEPT ![ResultSlot(i)] =
                            [state |-> "FINISHED",
                             result |-> calculate_hash(files_to_check[i], io)]]
          /\ log' = log \cup LogRecord(files_to_check[i], io)
    /\ out_of_order' = (out_of_order \/ \E j \in 1..(i - 1) : futures[j].state # "FINISHED")
    /\ UNCHANGED <<tree, listable, ignore_patterns, min_file_size, pc, wi,
                   files_to_check, calls, hash_results, gi, file_hashes, duplicates,
                   exit_status>>

\* list(...) over the result iterator of executor.map: the next future in
\* submission order, once it is finished
Collect ==
    /\ pc = "collect"
    /\ Len(hash_results) < Len(futures)
    /\ LET i == Len(hash_results) + 1 IN
          /\ futures[i].state = "FINISHED"
          /\ hash_results' = Append(hash_results, futures[i].result)
    /\ UNCHANGED <<tree, out_of_order, listable, ignore_patterns, min_file_size, pc,
                   wi, files_to_check, futures, calls, log, gi, file_hashes,
                   duplicates, exit_status>>

\* end of the with block: executor.shutdown(wait=True)
ExitPool ==
    /\ pc = "collect"
    /\ Len(hash_results) = Len(futures)
    /\ \A i \in DOMAIN futures : futures[i].state = "FINISHED"
    /\ pc' = "group"
    /\ UNCHANGED <<tree, out_of_order, listable, ignore_patterns, min_file_size, wi,
                   files_to_check, futures, calls, log, hash_results, gi, file_hashes,
                   duplicates, exit_status>>

\* variant: file_hashes[file_hash] = [file_path]
AppendToOverwrite(fh, key, file_path) ==
    [h \in DOMAIN fh \cup {key} |-> IF h = key THEN <<file_path>> ELSE fh[h]]

\* file_hashes[file_hash].append(file_path) on a defaultdict(list)
AppendTo(fh, key, file_path) ==
    [h \in DOMAIN fh \cup {key} |->
        IF h = key
        THEN (IF key \in DOMAIN fh THEN Append(fh[key], file_path) ELSE <<file_path>>)
        ELSE fh[h]]

\* one iteration of the loop over zip(files_to_check, hash_results)
GroupStep ==
    /\ pc = "group"
    /\ gi < Len(files_to_check) /\ gi < Len(hash_results)
    /\ LET file_path == files_to_check[gi + 1]
           file_hash == hash_results[gi + 1] IN
          file_hashes' = IF Truthy(file_hash)
                         THEN AppendTo(file_hashes, file_hash.val, file_path)
                         ELSE file_hashes
    /\ gi' = gi + 1
    /\ UNCHANGED <<tree, out_of_order, listable, ignore_patterns, min_file_size, pc,
                   wi, files_to_check, futures, calls, log, hash_results, duplicates,
                   exit_status>>

\* the returned dict comprehension
OnlyDuplicates(fh) ==
    [h \in {k \in DOMAIN fh : Len(fh[k]) > 1} |-> fh[h]]

Return ==
    /\ pc = "group"
    /\ ~(gi < Len(files_to_check) /\ gi < Len(hash_results))
    /\ duplicates' = OnlyDuplicates(file_hashes)
    /\ pc' = "done"
    /\ UNCHANGED <<tree, out_of_order, listable, ignore_patterns, min_file_size, wi,
                   files_to_check, futures, calls, log, hash_results, gi, file_hashes,
                   exit_status>>

\* ------------------------------------------------------------------ main
\* finder.print_duplicates(duplicates) after a normal return: os.path.getsize
\* of a member path may raise, which main turns into sys.exit(1)
MainPrint ==
    /\ pc = "done"
    /\ exit_status = "running"
    /\ \E stat \in {"ok", "OSError"} :
          exit_status' = IF stat = "OSError" /\ DOMAIN duplicates # {}
                         THEN "failure" ELSE "success"
    /\ UNCHANGED <<tree, out_of_order, listable, ignore_patterns, min_file_size, pc,
                   wi, files_to_check, futures, calls, log, hash_results, gi,
                   file_hashes, duplicates>>

\* except Exception: print the message, sys.exit(1)
MainExcept ==
    /\ pc = "raised"
    /\ exit_status = "running"
    /\ exit_status' = "failure"
    /\ UNCHANGED <<tree, out_of_order, listable, ignore_patterns, min_file_size, pc,
                   wi, files_to_check, futures, calls, log, hash_results, gi,
                   file_hashes, duplicates>>

Next ==
    \/ WalkFile
    \/ Submit
    \/ StartTask
    \/ \E i \in DOMAIN futures : FinishTask(i)
    \/ Collect
    \/ ExitPool
    \/ GroupStep
    \/ Return
    \/ MainPrint
    \/ MainExcept

Spec == Init /\ [][Next]_vars

\* ============================================================ properties
Range(s) == {s[i] : i \in DOMAIN s}

Files == Range(tree)

FileAt(path) == CHOOSE f \in Files : PathOf(f) = path

\* find_duplicate_files has returned its mapping
Returned == pc = "done"

\* the walk reaches the file: its directory and the root can be listed
Enumerated(f) == listable[ROOT] /\ listable[f.dir]

NotIgnored(filename) ==
    \A k \in DOMAIN ignore_patterns : ~Contains(filename, ignore_patterns[k])

Eligible(f) == Len(f.data) >= min_file_size /\ NotIgnored(f.name)

\* calculate_hash logged a failure for the path
Unreadable(path) == \E level \in {"WARNING", "ERROR"} : <<level, path>> \in log

\* keys of the returned groups that list the path
GroupsOf(path) == {h \in DOMAIN duplicates : path \in Range(duplicates[h])}

Together(p, q) == Cardinality(GroupsOf(p) \cap GroupsOf(q)) = 1

\* the returned mapping as a set of path sets
SetView == {Range(duplicates[h]) : h \in DOMAIN duplicates}

\* the duplicate sets of a set of paths: classes of equal content, two or more
Grouping(paths) ==
    {S \in {{p \in paths : ContentOf(p) = c} : c \in Contents} : Cardinality(S) >= 2}

\* position of a path in the discovery order of the walk
Position(path) == CHOOSE i \in DOMAIN tree : PathOf(tree[i]) = path

\* ------------------------------------------------------------------- C1
\* C1 as stated: after every scan, any two files under the root with the same
\* bytes, size >= min_file_size and a filename matching no ignore pattern
\* are listed together in exactly one returned group.
C1_Original ==
    Returned =>
        \A f, g \in Files :
            (f # g /\ f.data = g.data /\ Eligible(f) /\ Eligible(g))
                => Together(PathOf(f), PathOf(g))

\* C1 amended: the same, for files the walk enumerates (their directories can
\* be listed) and calculate_hash read without error.
C1_IdenticalFilesShareOneGroup ==
    Returned =>
        \A f, g \in Files :
            (/\ f # g /\ f.data = g.data
             /\ Eligible(f) /\ Eligible(g)
             /\ Enumerated(f) /\ Enumerated(g)
             /\ ~Unreadable(PathOf(f)) /\ ~Unreadable(PathOf(g)))
                => /\ Together(PathOf(f), PathOf(g))
                   /\ Cardinality(GroupsOf(PathOf(f))) = 1

C1_Witness ==
    /\ Returned
    /\ \E f, g \in Files :
          /\ f # g /\ f.data = g.data /\ Len(f.data) = min_file_size
          /\ Together(PathOf(f), PathOf(g))
    /\ log # {}

\* ------------------------------------------------------------------- C2
\* C2: in the returned mapping two files with different bytes never share a
\* group, and every path is listed in at most one group and at most once in
\* it, for every tree and every completion order of the hashing tasks.
C2_DistinctContentNeverShares ==
    Returned =>
        /\ \A h \in DOMAIN duplicates : \A i, j \in DOMAIN duplicates[h] :
              /\ ContentOf(duplicates[h][i]) = ContentOf(duplicates[h][j])
              /\ i # j => duplicates[h][i] # duplicates[h][j]
        /\ \A f \in Files : Cardinality(GroupsOf(PathOf(f))) <= 1

C2_Witness ==
    /\ Returned
    /\ out_of_order
    /\ \E h \in DOMAIN duplicates : \E i \in DOMAIN files_to_check :
          /\ Truthy(hash_results[i])
          /\ files_to_check[i] \notin Range(duplicates[h])
          /\ Len(ContentOf(files_to_check[i])) = Len(ContentOf(duplicates[h][1]))

\* ------------------------------------------------------------------- C3
\* C3: no path of a returned group fails the filter: its size is at least
\* min_file_size and its filename contains no ignore pattern; with an empty
\* ignore list every enumerated file of sufficient size is a candidate.
C3_GroupsPassFilter ==
    /\ Returned =>
          \A h \in DOMAIN duplicates : \A p \in Range(duplicates[h]) :
              /\ Len(FileAt(p).data) >= min_file_size
              /\ NotIgnored(FileAt(p).name)
    /\ (pc \in {"collect", "group", "done"} /\ ignore_patterns = <<>>) =>
          \A f \in Files :
              (Enumerated(f) /\ Len(f.data) >= min_file_size)
                  => PathOf(f) \in Range(files_to_check)

C3_Witness ==
    /\ Returned
    /\ \E h \in DOMAIN duplicates : \E f \in Files :
          /\ Enumerated(f)
          /\ f.data = ContentOf(duplicates[h][1])
          /\ ~NotIgnored(f.name)
          /\ PathOf(f) \notin Range(duplicates[h])

\* ------------------------------------------------------------------- C4
\* C4: a candidate that cannot be opened or read is dropped: calculate_hash
\* returns None and the scan does not raise, the path is in no returned
\* group, and the groups are those of the candidates without that file.
C4_UnreadableFileDropped ==
    /\ log # {} => pc # "raised"
    /\ \A i \in DOMAIN futures :
          (futures[i].state = "FINISHED" /\ Unreadable(files_to_check[i]))
              => futures[i].result = None
    /\ Returned =>
          /\ \A p \in Range(files_to_check) : Unreadable(p) => GroupsOf(p) = {}
          /\ SetView = Grouping({p \in Range(files_to_check) : ~Unreadable(p)})

C4_Witness ==
    /\ Returned
    /\ \E h \in DOMAIN duplicates : \E p \in Range(files_to_check) :
          /\ Unreadable(p)
          /\ ContentOf(p) = ContentOf(duplicates[h][1])

\* ------------------------------------------------------------------- C5
\* C5 as stated: an error on a single file never ends the scan; a scan that
\* ends with an error does so because the root could not be resolved.
C5_OnlyRootErrorEndsScan == pc = "raised" => ~listable[ROOT]

\* ------------------------------------------------------------------- C6
\* C6 as stated: when the root directory is missing or cannot be read, main
\* does not complete normally: it never exits with status 0.
C6_BadRootExitsNonZero == ~listable[ROOT] => exit_status # "success"

\* ------------------------------------------------------------------- C7
\* C7: the returned mapping, as digest -> set of paths, depends only on the
\* set of files, not on the order the walk lists them or the order the
\* hashing tasks complete in.
GoodPaths ==
    {PathOf(f) : f \in {g \in Files : Enumerated(g) /\ Eligible(g)
                                        /\ ~Unreadable(PathOf(g))}}

SameDigest(h) == {p \in GoodPaths : Sha256(ContentOf(p), ChunkSize) = h}

C7_OrderIndependent ==
    Returned =>
        /\ \A h \in DOMAIN duplicates : Range(duplicates[h]) = SameDigest(h)
        /\ \A p \in GoodPaths :
              Cardinality(SameDigest(Sha256(ContentOf(p), ChunkSize))) >= 2
                  => Sha256(ContentOf(p), ChunkSize) \in DOMAIN duplicates

C7_Witness ==
    /\ Returned
    /\ out_of_order
    /\ \E h \in DOMAIN duplicates :
          /\ duplicates[h][1] = Join(ROOT, <<"a", "t">>)
          /\ duplicates[h][2] = Join(ROOT, <<"a">>)

\* ------------------------------------------------------------------- C8
\* C8: at most MaxWorkers calculate_hash calls run at any time, however many
\* candidates there are, and every candidate is hashed exactly once.
C8_BoundedPool ==
    /\ Cardinality(Running) <= MaxWorkers
    /\ \A i \in DOMAIN calls : calls[i] <= 1
    /\ pc \in {"collect", "group", "done"} =>
          /\ Len(futures) = Len(files_to_check)
          /\ Len(calls) = Len(files_to_check)
    /\ pc \in {"group", "done"} => \A i \in DOMAIN files_to_check : calls[i] = 1

C8_Witness ==
    /\ Cardinality(Running) = MaxWorkers
    /\ Pending # {}

\* ------------------------------------------------------------------- C9
\* C9: no hashing task exists before the walk has examined every entry, the
\* bucket map is written only after every task has finished, and no step of
\* a hashing task changes the bucket map.
PhaseInv ==
    /\ futures # <<>> => (pc # "walk" /\ wi = Len(Discovered))
    /\ DOMAIN file_hashes # {} =>
          (/\ pc \in {"group", "done"}
           /\ \A i \in DOMAIN futures : futures[i].state = "FINISHED")

HashStep == StartTask \/ \E i \in DOMAIN futures : FinishTask(i)

C9_StrictlyPhased == []PhaseInv /\ [][HashStep => file_hashes' = file_hashes]_vars

C9_Witness ==
    /\ pc = "group"
    /\ DOMAIN file_hashes # {}
    /\ out_of_order
    /\ Len(Discovered) >= 2

\* ------------------------------------------------------------------ C10
\* C10: the i-th result is the result of hashing the i-th candidate, so each
\* path lands in the bucket of its own digest, and the paths of a returned
\* group are in discovery order.
OwnResult(i, r) ==
    IF Unreadable(files_to_check[i]) THEN r = None
    ELSE r = Str(Sha256(ContentOf(files_to_check[i]), ChunkSize))

C10_ResultsPairedInOrder ==
    /\ \A i \in DOMAIN futures :
          futures[i].state = "FINISHED" => OwnResult(i, futures[i].result)
    /\ \A i \in DOMAIN hash_results : OwnResult(i, hash_results[i])
    /\ Returned =>
          \A h \in DOMAIN duplicates :
              /\ \A p \in Range(duplicates[h]) : Sha256(ContentOf(p), ChunkSize) = h
              /\ \A a, b \in DOMAIN duplicates[h] :
                    a < b => Position(duplicates[h][a]) < Position(duplicates[h][b])

C10_Witness ==
    /\ Returned
    /\ out_of_order
    /\ DOMAIN duplicates # {}
    /\ \E i, j \in DOMAIN hash_results :
          Truthy(hash_results[i]) /\ Truthy(hash_results[j])
              /\ hash_results[i] # hash_results[j]

====
